---------------------------- MODULE Spec2Model ----------------------------
(***************************************************************************)
(* Model of the schema-diff engine of db_validator.py:                     *)
(*   compare_databases(df1, df2)  - the comparator (lines 45-154)          *)
(*   generate_sync_sql(diff_df, engine1) - the sync script generator       *)
(*                                          (lines 156-235)                *)
(*                                                                         *)
(* A DataFrame is a sequence of rows (records).  A Python list of          *)
(* statements is a sequence; one statement (an f-string) is a sequence of  *)
(* tokens, the literal pieces and the interpolated values in order.  The    *)
(* backquotes the code puts around table and column names are left out of  *)
(* the literal tokens.                                                     *)
(***************************************************************************)
EXTENDS Integers, Sequences, FiniteSets, TLC

\* ------------------------------------------------------------------ bounds
\* Most rows of one schema snapshot.
MaxRows == 3
\* Most records of a difference list handed to the generator.
MaxDiffs == 3

\* Table and column names, in lexicographic order (groupby sorts its keys).
TableNames == <<"audit", "orders">>
ColumnNames == <<"id", "status">>
Tables == {TableNames[i] : i \in DOMAIN TableNames}
Columns == {ColumnNames[i] : i \in DOMAIN ColumnNames}
\* str(column['type']) of the introspection provider.
Types == {"VARCHAR(10)", "VARCHAR(20)"}

\* ------------------------------------------------------------- data frames
\* Python's str() of a bool.
str(b) == IF b THEN "True" ELSE "False"

\* df.empty
\* (faulty variant: the emptiness test never fires)
empty_nonempty(df) == FALSE
empty(df) == Len(df) = 0

\* Iteration over a Python set of strings: the order depends on the hash
\* seed of the process, so every order of the elements is possible.
SetOrders(S) ==
    {o \in [1..Cardinality(S) -> S] : \A i, j \in DOMAIN o : o[i] = o[j] => i = j}

\* Concatenation of a sequence of sequences.
RECURSIVE Flatten(_)
Flatten(ss) ==
    IF ss = <<>> THEN <<>> ELSE Head(ss) \o Flatten(Tail(ss))

\* The concatenations that take one sequence from each set of ss, in order.
RECURSIVE ConcatChoices(_)
ConcatChoices(ss) ==
    IF ss = <<>> THEN {<<>>}
    ELSE {h \o t : h \in Head(ss), t \in ConcatChoices(Tail(ss))}

\* The keys (table, column) in discovery order: table by table, and the
\* columns of a table in order (get_db_structure's two nested loops).
KeyOrder ==
    [i \in 1..(Len(TableNames) * Len(ColumnNames)) |->
        <<TableNames[((i - 1) \div Len(ColumnNames)) + 1],
          ColumnNames[((i - 1) % Len(ColumnNames)) + 1]>>]
Keys == {KeyOrder[i] : i \in DOMAIN KeyOrder}

\* The rows get_db_structure appends for the columns K with attributes a.
\* The fields Database and Default are left out: compare_databases reads
\* Table, Column, Type and Nullable only.
get_db_structure(K, a) ==
    LET ks == SelectSeq(KeyOrder, LAMBDA k : k \in K)
    IN  [i \in 1..Len(ks) |->
            [Table |-> ks[i][1], Column |-> ks[i][2],
             Type |-> a[ks[i]][1], Nullable |-> a[ks[i]][2]]]

\* The snapshots of at most MaxRows rows; the pair (Table, Column) is unique
\* in a snapshot, as the introspection provider lists a column once.
DataFrames ==
    UNION {{get_db_structure(K, a) : a \in [K -> Types \X BOOLEAN]} :
              K \in {S \in SUBSET Keys : Cardinality(S) <= MaxRows}}

\* ------------------------------------------------------------- comparator
\* create_lookup: Table -> (Column -> row); a later row replaces an earlier
\* one with the same table and column.
create_lookup(df) ==
    IF empty(df) THEN <<>>
    ELSE
    LET tabs == {df[i].Table : i \in DOMAIN df}
        colsOf(t) == {df[i].Column : i \in {j \in DOMAIN df : df[j].Table = t}}
        last(t, c) == CHOOSE i \in DOMAIN df :
                          /\ df[i].Table = t /\ df[i].Column = c
                          /\ \A j \in DOMAIN df :
                                (df[j].Table = t /\ df[j].Column = c) => j <= i
    IN  [t \in tabs |-> [c \in colsOf(t) |-> df[last(t, c)]]]

\* A row of the difference DataFrame.
Diff(table, column, kind, v1, v2) ==
    [Table |-> table, Column |-> column, DifferenceType |-> kind,
     DB1Value |-> v1, DB2Value |-> v2]

\* missing_tables = db1_tables - db2_tables
\* (faulty variant: the difference is forgotten)
missing_tables_all(db1_tables, db2_tables) == db1_tables
missing_tables(db1_tables, db2_tables) == db1_tables \ db2_tables

\* extra_tables = db2_tables - db1_tables
\* (faulty variant: the difference is forgotten)
extra_tables_all(db1_tables, db2_tables) == db2_tables
extra_tables(db1_tables, db2_tables) == db2_tables \ db1_tables

\* common_tables = db1_tables.intersection(db2_tables)
common_tables(db1_tables, db2_tables) == db1_tables \cap db2_tables

\* missing_cols = db1_col_names - db2_col_names
\* (faulty variant: the difference is forgotten)
missing_cols_all(db1_col_names, db2_col_names) == db1_col_names
missing_cols(db1_col_names, db2_col_names) == db1_col_names \ db2_col_names

\* extra_cols = db2_col_names - db1_col_names
extra_cols(db1_col_names, db2_col_names) == db2_col_names \ db1_col_names

\* common_cols = db1_col_names.intersection(db2_col_names)
common_cols(db1_col_names, db2_col_names) == db1_col_names \cap db2_col_names

\* The records of one common column: Type first, then Nullable.
\* (faulty variant: the second test written as an elif of the first)
compare_column_type_only(table, col, row1, row2) ==
    IF row1.Type # row2.Type
    THEN <<Diff(table, col, "Type Mismatch", row1.Type, row2.Type)>>
    ELSE IF row1.Nullable # row2.Nullable
    THEN <<Diff(table, col, "Nullable Mismatch",
                str(row1.Nullable), str(row2.Nullable))>>
    ELSE <<>>
compare_column(table, col, row1, row2) ==
    (IF row1.Type # row2.Type
     THEN <<Diff(table, col, "Type Mismatch", row1.Type, row2.Type)>>
     ELSE <<>>)
    \o
    (IF row1.Nullable # row2.Nullable
     THEN <<Diff(table, col, "Nullable Mismatch",
                 str(row1.Nullable), str(row2.Nullable))>>
     ELSE <<>>)

\* The records of one common table: missing columns, extra columns, then the
\* common columns; each loop runs over a set.  The value is the set of the
\* lists the loops can append, one per iteration order.
compare_table(table, db1_cols, db2_cols) ==
    LET db1_col_names == DOMAIN db1_cols
        db2_col_names == DOMAIN db2_cols
        miss == {[i \in DOMAIN o |->
                     Diff(table, o[i], "Missing Column in DB2", "Exists", "Missing")] :
                 o \in SetOrders(missing_cols(db1_col_names, db2_col_names))}
        extr == {[i \in DOMAIN o |->
                     Diff(table, o[i], "Extra Column in DB2", "Missing", "Exists")] :
                 o \in SetOrders(extra_cols(db1_col_names, db2_col_names))}
        comm == {Flatten([i \in DOMAIN o |->
                     compare_column(table, o[i], db1_cols[o[i]], db2_cols[o[i]])]) :
                 o \in SetOrders(common_cols(db1_col_names, db2_col_names))}
    IN  {m \o e \o c : m \in miss, e \in extr, c \in comm}

\* compare_databases(df1, df2): the lists diffs the call can return, one per
\* iteration order of its sets (pd.DataFrame(diffs) has one row per element,
\* in order; an empty list gives an empty DataFrame).
compare_databases(df1, df2) ==
    IF empty(df1) THEN {<<>>}
    ELSE
    LET db1_lookup == create_lookup(df1)
        db2_lookup == create_lookup(df2)
        db1_tables == DOMAIN db1_lookup
        db2_tables == DOMAIN db2_lookup
        miss == {[i \in DOMAIN o |->
                     Diff(o[i], "ALL", "Missing Table in DB2", "Exists", "Missing")] :
                 o \in SetOrders(missing_tables(db1_tables, db2_tables))}
        extr == {[i \in DOMAIN o |->
                     Diff(o[i], "ALL", "Extra Table in DB2", "Missing", "Exists")] :
                 o \in SetOrders(extra_tables(db1_tables, db2_tables))}
        comm == UNION {ConcatChoices([i \in DOMAIN o |->
                           compare_table(o[i], db1_lookup[o[i]], db2_lookup[o[i]])]) :
                       o \in SetOrders(common_tables(db1_tables, db2_tables))}
    IN  {m \o e \o c : m \in miss, e \in extr, c \in comm}

\* -------------------------------------------------------------- generator
\* Python's None.
None == "<None>"

\* What conn.execute(...).fetchone() can do: raise, return None (no row) or
\* return a row.
Raised(e) == [kind |-> "exc", e |-> e]
NoRow == [kind |-> "none"]
Row(r) == [kind |-> "row", row |-> r]

\* Messages of the exceptions the DB1 connection raises.
Errors == {"(OperationalError) lost connection"}
\* Message of the TypeError of None[1].
NotSubscriptable == "'NoneType' object is not subscriptable"

\* Rows of SHOW CREATE TABLE <table>: (Table, Create Table).
CreateText(table) == <<"CREATE TABLE ", table, " (...)">>
TableResponses(table) ==
    {Raised(e) : e \in Errors} \cup {NoRow} \cup {Row(<<table, CreateText(table)>>)}

\* Rows of SHOW COLUMNS FROM <table> WHERE Field = '<column>':
\* (Field, Type, Null, Key, Default, Extra).
ColumnResponses(column) ==
    {Raised(e) : e \in Errors} \cup {NoRow} \cup
    {Row(<<column, "int", null, "", default, "">>) :
        null \in {"NO", "YES"}, default \in {None, "0"}}

\* The records a difference list can hold.
GenColumns == {"status"}
DiffRows ==
    {Diff(t, "ALL", "Missing Table in DB2", "Exists", "Missing") : t \in Tables}
    \cup {Diff(t, "ALL", "Extra Table in DB2", "Missing", "Exists") : t \in Tables}
    \cup {Diff(t, c, "Missing Column in DB2", "Exists", "Missing") :
             t \in Tables, c \in GenColumns}
    \cup {Diff(t, c, "Extra Column in DB2", "Missing", "Exists") :
             t \in Tables, c \in GenColumns}
    \cup {Diff(t, c, "Type Mismatch", "VARCHAR(10)", "VARCHAR(20)") :
             t \in Tables, c \in GenColumns}
    \cup {Diff(t, c, "Nullable Mismatch", "True", "False") :
             t \in Tables, c \in GenColumns}
\* The difference lists of at most MaxDiffs records, no record twice (the
\* comparator emits a record once).
DiffLists ==
    {d \in UNION {[1..n -> DiffRows] : n \in 0..MaxDiffs} :
        \A i, j \in DOMAIN d : d[i] = d[j] => i = j}

\* diff_df.groupby("Table"): one group per table name, the groups in the
\* order of the sorted names, the rows of a group in their original order.
groupby_Table(diff_df) ==
    LET names == SelectSeq(TableNames,
                     LAMBDA t : \E i \in DOMAIN diff_df : diff_df[i].Table = t)
    IN  [g \in 1..Len(names) |->
            [name |-> names[g],
             group |-> SelectSeq(diff_df, LAMBDA r : r.Table = names[g])]]

\* not group[group["Difference Type"] == "Missing Table in DB2"].empty
\* (faulty variant: only the first record of the group is looked at)
has_missing_table_first(group) ==
    group[1].DifferenceType = "Missing Table in DB2"
has_missing_table(group) ==
    ~ empty(SelectSeq(group, LAMBDA r : r.DifferenceType = "Missing Table in DB2"))

\* Lines 177-185: the statements appended for a table that is missing.
create_table_block(table_name, result) ==
    IF result.kind = "exc"
    THEN << <<"-- Error generating CREATE TABLE for ", table_name, ": ", result.e>> >>
    ELSE IF result.kind = "none"
    THEN << <<"-- Error generating CREATE TABLE for ", table_name, ": ",
              NotSubscriptable>> >>
    ELSE LET create_stmt == result.row[2]
         IN  << <<"-- Missing Table: ", table_name>>,
                create_stmt \o <<";\n">> >>

\* Lines 194 and 214: the branch a record takes in the loop over a group.
\* (faulty variant: Extra Column is handled like Missing Column)
branch_any_column(diff_type) ==
    IF diff_type \in {"Missing Column in DB2", "Extra Column in DB2"} THEN "ADD"
    ELSE IF diff_type \in {"Type Mismatch", "Nullable Mismatch"} THEN "MODIFY"
    ELSE "NONE"
branch(diff_type) ==
    IF diff_type = "Missing Column in DB2" THEN "ADD"
    ELSE IF diff_type \in {"Type Mismatch", "Nullable Mismatch"} THEN "MODIFY"
    ELSE "NONE"

\* Lines 203 and 221.
null_str(null) == IF null = "NO" THEN <<"NOT NULL">> ELSE <<"NULL">>

\* Lines 204-206 and 222-224; the empty string is the empty sequence.
\* (faulty variant: the DEFAULT NULL case is forgotten)
default_str_no_null(null, default) ==
    IF default # None THEN <<"DEFAULT '", default, "'">> ELSE <<>>
default_str(null, default) ==
    LET s == IF default # None THEN <<"DEFAULT '", default, "'">> ELSE <<>>
    IN  IF default = None /\ null = "YES" THEN <<"DEFAULT NULL">> ELSE s

\* Lines 208 and 226.
alter_sql(table_name, verb, column, col_info) ==
    LET col_type == col_info[2]
        null == col_info[3]
        default == col_info[5]
        extra == col_info[6]
    IN  <<"ALTER TABLE ", table_name, " ", verb, " COLUMN ", column, " ",
          col_type, " ">> \o null_str(null) \o <<" ">>
        \o default_str(null, default) \o <<" ", extra, ";">>

\* Lines 194-230: the statements appended for one record of a group whose
\* table is not missing; result is what fetchone() did.
\* (faulty variant: the except clause appends nothing)
column_block_silent(table_name, row, result) ==
    LET diff_type == row.DifferenceType
        column == row.Column
    IN  IF branch(diff_type) = "NONE" \/ result.kind # "row" THEN <<>>
        ELSE IF branch(diff_type) = "ADD"
        THEN << <<"-- Missing Column: ", table_name, ".", column>>,
                alter_sql(table_name, "ADD", column, result.row) >>
        ELSE << <<"-- Mismatch: ", table_name, ".", column, " (", diff_type, ")">>,
                alter_sql(table_name, "MODIFY", column, result.row) >>
column_block(table_name, row, result) ==
    LET diff_type == row.DifferenceType
        column == row.Column
    IN  IF branch(diff_type) = "NONE" THEN <<>>
        ELSE IF result.kind = "exc"
        THEN << <<"-- Error getting definition for ", table_name, ".", column,
                  ": ", result.e>> >>
        ELSE IF result.kind = "none" THEN <<>>
        ELSE IF branch(diff_type) = "ADD"
        THEN << <<"-- Missing Column: ", table_name, ".", column>>,
                alter_sql(table_name, "ADD", column, result.row) >>
        ELSE << <<"-- Mismatch: ", table_name, ".", column, " (", diff_type, ")">>,
                alter_sql(table_name, "MODIFY", column, result.row) >>

\* "\n".join(sql_statements)
RECURSIVE join(_)
join(stmts) ==
    IF stmts = <<>> THEN <<>>
    ELSE IF Len(stmts) = 1 THEN stmts[1]
    ELSE stmts[1] \o <<"\n">> \o join(Tail(stmts))

\* ------------------------------------------------------------------ state
VARIABLES
    pc,              \* position of the run
    df1,             \* snapshot of DB1 (master)
    df2,             \* snapshot of DB2
    df_diff,         \* the difference list
    gi,              \* generator: index of the group being processed
    ri,              \* generator: index of the record within the group
    sql_statements,  \* generator: the list sql_statements
    fetched,         \* the lookups made on DB1 so far and what each did
    sql_script       \* what generate_sync_sql returned

vars == <<pc, df1, df2, df_diff, gi, ri, sql_statements, fetched, sql_script>>

gen_vars == <<gi, ri, sql_statements, fetched, sql_script>>

\* compare_databases is called with two snapshots (main, lines 260-272).
Init ==
    /\ pc = "compare"
    /\ df1 \in DataFrames
    /\ df2 \in DataFrames
    /\ df_diff = <<>>
    /\ gi = 0 /\ ri = 0
    /\ sql_statements = <<>>
    /\ fetched = <<>>
    /\ sql_script = <<>>

\* df_diff = compare_databases(df1, df2): the whole call, lines 45-154.
Compare ==
    /\ pc = "compare"
    /\ df_diff' \in compare_databases(df1, df2)
    /\ pc' = "compared"
    /\ UNCHANGED <<df1, df2, gen_vars>>

Next == Compare

Spec == Init /\ [][Next]_vars

\* ----------------------------------------------- properties: comparator
\* What a snapshot says, read off its rows.
SnapTables(df) == {df[i].Table : i \in DOMAIN df}
SnapCols(df, t) == {df[i].Column : i \in {j \in DOMAIN df : df[j].Table = t}}
SnapRow(df, t, c) ==
    df[CHOOSE i \in DOMAIN df : df[i].Table = t /\ df[i].Column = c]
BoolText(b) == IF b THEN "True" ELSE "False"

TableKinds == {"Missing Table in DB2", "Extra Table in DB2"}
ColumnKinds == {"Missing Column in DB2", "Extra Column in DB2",
                "Type Mismatch", "Nullable Mismatch"}

\* The positions of the table-level records of table t in the difference list.
TableLevel(t) ==
    {i \in DOMAIN df_diff :
        df_diff[i].Table = t /\ df_diff[i].DifferenceType \in TableKinds}
\* How often the record r is in the difference list.
Times(r) == Cardinality({i \in DOMAIN df_diff : df_diff[i] = r})

TableComplete(t) ==
    LET inA == t \in SnapTables(df1)
        inB == t \in SnapTables(df2)
    IN  /\ (inA /\ ~ inB) =>
              /\ Cardinality(TableLevel(t)) = 1
              /\ Times([Table |-> t, Column |-> "ALL",
                        DifferenceType |-> "Missing Table in DB2",
                        DB1Value |-> "Exists", DB2Value |-> "Missing"]) = 1
        /\ (inB /\ ~ inA) =>
              /\ Cardinality(TableLevel(t)) = 1
              /\ Times([Table |-> t, Column |-> "ALL",
                        DifferenceType |-> "Extra Table in DB2",
                        DB1Value |-> "Missing", DB2Value |-> "Exists"]) = 1
        /\ (inA /\ inB) => TableLevel(t) = {}

\* C1 as stated: for any snapshots, every table in exactly one of them has
\* exactly one table-level record, of the correct kind and values, and a
\* table in both has none.
C1_TableCompleteness_AnySnapshots ==
    pc = "compared" => \A t \in Tables : TableComplete(t)

\* C1, amended: the same for every pair of snapshots whose DB1 snapshot is
\* not empty.
C1_TableCompleteness ==
    (pc = "compared" /\ df1 # <<>>) => \A t \in Tables : TableComplete(t)

C1_Witness ==
    /\ pc = "compared"
    /\ \E t, u \in Tables :
          /\ t \in SnapTables(df1) \ SnapTables(df2)
          /\ u \in SnapTables(df2) \ SnapTables(df1)
          /\ Len(df_diff) = 2

\* The column-level records the spec expects for column c of a common table.
ExpectedColumnRecords(t, c) ==
    LET inA == c \in SnapCols(df1, t)
        inB == c \in SnapCols(df2, t)
        r1 == SnapRow(df1, t, c)
        r2 == SnapRow(df2, t, c)
    IN  IF inA /\ ~ inB
        THEN {[Table |-> t, Column |-> c,
               DifferenceType |-> "Missing Column in DB2",
               DB1Value |-> "Exists", DB2Value |-> "Missing"]}
        ELSE IF inB /\ ~ inA
        THEN {[Table |-> t, Column |-> c,
               DifferenceType |-> "Extra Column in DB2",
               DB1Value |-> "Missing", DB2Value |-> "Exists"]}
        ELSE IF inA /\ inB
        THEN (IF r1.Type # r2.Type
              THEN {[Table |-> t, Column |-> c,
                     DifferenceType |-> "Type Mismatch",
                     DB1Value |-> r1.Type, DB2Value |-> r2.Type]}
              ELSE {})
             \cup
             (IF r1.Nullable # r2.Nullable
              THEN {[Table |-> t, Column |-> c,
                     DifferenceType |-> "Nullable Mismatch",
                     DB1Value |-> BoolText(r1.Nullable),
                     DB2Value |-> BoolText(r2.Nullable)]}
              ELSE {})
        ELSE {}

\* C2: on a table present in both snapshots, the records of a column are
\* exactly the expected ones, each once: Missing Column, Extra Column, Type
\* Mismatch with the two types, Nullable Mismatch with the two flags as
\* strings, and none for a column equal on both sides.
C2_ColumnCompleteness ==
    pc = "compared" =>
        \A t \in SnapTables(df1) \cap SnapTables(df2) : \A c \in Columns :
            /\ \A r \in ExpectedColumnRecords(t, c) : Times(r) = 1
            /\ \A i \in DOMAIN df_diff :
                  (df_diff[i].Table = t /\ df_diff[i].Column = c)
                      => df_diff[i] \in ExpectedColumnRecords(t, c)

C2_Witness ==
    /\ pc = "compared"
    /\ \E t \in SnapTables(df1) \cap SnapTables(df2) :
          /\ SnapCols(df1, t) \ SnapCols(df2, t) # {}
          /\ \E c \in SnapCols(df1, t) \cap SnapCols(df2, t) :
                /\ SnapRow(df1, t, c).Type # SnapRow(df2, t, c).Type
                /\ SnapRow(df1, t, c).Nullable # SnapRow(df2, t, c).Nullable
          /\ Len(df_diff) = 3

\* C3: with an empty DB1 snapshot the comparison returns, and returns the
\* empty difference list, whatever the DB2 snapshot holds.
C3_EmptyMaster ==
    (pc = "compared" /\ df1 = <<>>) => df_diff = <<>>

C3_Witness ==
    /\ pc = "compared"
    /\ df1 = <<>>
    /\ SnapTables(df2) # {}
    /\ df_diff = <<>>

\* C4: a non-empty snapshot compared with itself gives the empty difference
\* list.
C4_SelfCompare ==
    (pc = "compared" /\ df1 # <<>> /\ df2 = df1) => df_diff = <<>>

C4_Witness ==
    /\ pc = "compared"
    /\ Len(df1) >= 2
    /\ df2 = df1
    /\ df_diff = <<>>

\* C5: the difference list has at most one record per (Table, Column,
\* Difference Type), and a table with a table-level record has no
\* column-level record.
C5_DifferenceListInvariant ==
    pc = "compared" =>
        /\ \A i, j \in DOMAIN df_diff :
              ( /\ df_diff[i].Table = df_diff[j].Table
                /\ df_diff[i].Column = df_diff[j].Column
                /\ df_diff[i].DifferenceType = df_diff[j].DifferenceType )
              => i = j
        /\ \A i, j \in DOMAIN df_diff :
              ( /\ df_diff[i].DifferenceType \in TableKinds
                /\ df_diff[j].Table = df_diff[i].Table )
              => df_diff[j].DifferenceType \notin ColumnKinds

C5_Witness ==
    /\ pc = "compared"
    /\ \E i, j \in DOMAIN df_diff :
          /\ df_diff[i].DifferenceType \in TableKinds
          /\ df_diff[j].DifferenceType \in ColumnKinds
    /\ \E i, j \in DOMAIN df_diff :
          /\ i # j
          /\ df_diff[i].Table = df_diff[j].Table
          /\ df_diff[i].Column = df_diff[j].Column

\* ------------------------------------------------- generator, step by step
\* generate_sync_sql is entered with a difference list.
InitGen ==
    /\ pc = "generate"
    /\ df1 = <<>>
    /\ df2 = <<>>
    /\ df_diff \in DiffLists
    /\ gi = 0 /\ ri = 0
    /\ sql_statements = <<>>
    /\ fetched = <<>>
    /\ sql_script = <<>>

grouped == groupby_Table(df_diff)

\* Lines 160-161.
ReturnEmpty ==
    /\ pc = "generate"
    /\ empty(df_diff)
    /\ sql_script' = <<>>
    /\ pc' = "returned"
    /\ UNCHANGED <<df1, df2, df_diff, gi, ri, sql_statements, fetched>>

\* Line 167: engine1.connect() succeeds.
Connect ==
    /\ pc = "generate"
    /\ ~ empty(df_diff)
    /\ pc' = "loop"
    /\ gi' = 1 /\ ri' = 1
    /\ UNCHANGED <<df1, df2, df_diff, sql_statements, fetched, sql_script>>

\* Lines 167 and 232-233: engine1.connect() raises.
ConnectFail ==
    /\ pc = "generate"
    /\ ~ empty(df_diff)
    /\ \E e \in Errors :
          sql_script' = <<"-- Error connecting to DB1 for SQL generation: ", e>>
    /\ pc' = "conn_error"
    /\ UNCHANGED <<df1, df2, df_diff, gi, ri, sql_statements, fetched>>

\* Lines 174-187: a group with a "Missing Table in DB2" record.
CreateTable ==
    /\ pc = "loop"
    /\ gi <= Len(grouped)
    /\ has_missing_table(grouped[gi].group)
    /\ \E result \in TableResponses(grouped[gi].name) :
          /\ sql_statements' =
                sql_statements \o create_table_block(grouped[gi].name, result)
          /\ fetched' = Append(fetched,
                [Table |-> grouped[gi].name, Column |-> "ALL",
                 DifferenceType |-> "Missing Table in DB2", result |-> result])
    /\ gi' = gi + 1 /\ ri' = 1
    /\ UNCHANGED <<pc, df1, df2, df_diff, sql_script>>

\* Line 190: the next record of the group, or the next group.
Advance ==
    /\ IF ri < Len(grouped[gi].group)
       THEN gi' = gi /\ ri' = ri + 1
       ELSE gi' = gi + 1 /\ ri' = 1

\* Lines 194-230: a record that takes the ADD COLUMN or MODIFY COLUMN branch.
AlterColumn ==
    /\ pc = "loop"
    /\ gi <= Len(grouped)
    /\ ~ has_missing_table(grouped[gi].group)
    /\ LET table_name == grouped[gi].name
           row == grouped[gi].group[ri]
       IN  /\ branch(row.DifferenceType) # "NONE"
           /\ \E result \in ColumnResponses(row.Column) :
                 /\ sql_statements' =
                       sql_statements \o column_block(table_name, row, result)
                 /\ fetched' = Append(fetched,
                       [Table |-> table_name, Column |-> row.Column,
                        DifferenceType |-> row.DifferenceType, result |-> result])
    /\ Advance
    /\ UNCHANGED <<pc, df1, df2, df_diff, sql_script>>

\* Lines 194 and 214: a record that takes neither branch.
SkipRow ==
    /\ pc = "loop"
    /\ gi <= Len(grouped)
    /\ ~ has_missing_table(grouped[gi].group)
    /\ LET table_name == grouped[gi].name
           row == grouped[gi].group[ri]
       IN  /\ branch(row.DifferenceType) = "NONE"
           /\ sql_statements' =
                 sql_statements \o column_block(table_name, row, NoRow)
    /\ Advance
    /\ UNCHANGED <<pc, df1, df2, df_diff, fetched, sql_script>>

\* Lines 167 and 232-233: leaving the with block (closing the connection)
\* raises after the loop; the handler returns the error comment alone and
\* the statements collected so far are dropped.
CloseFail ==
    /\ pc = "loop"
    /\ gi > Len(grouped)
    /\ \E e \in Errors :
          sql_script' = <<"-- Error connecting to DB1 for SQL generation: ", e>>
    /\ pc' = "conn_error"
    /\ UNCHANGED <<df1, df2, df_diff, gi, ri, sql_statements, fetched>>

\* Line 235: the with block is left without an exception.
Return ==
    /\ pc = "loop"
    /\ gi > Len(grouped)
    /\ sql_script' = join(sql_statements)
    /\ pc' = "returned"
    /\ UNCHANGED <<df1, df2, df_diff, gi, ri, sql_statements, fetched>>

NextGen ==
    \/ ReturnEmpty
    \/ Connect
    \/ ConnectFail
    \/ CreateTable
    \/ AlterColumn
    \/ SkipRow
    \/ CloseFail
    \/ Return

SpecGen == InitGen /\ [][NextGen]_vars

\* ------------------------------------------------ properties: generator
\* The lines of the returned script: the pieces between the "\n" of join.
Lines ==
    LET n == Len(sql_script)
        sep == <<0>> \o SelectSeq([i \in 1..n |-> i],
                                  LAMBDA i : sql_script[i] = "\n") \o <<n + 1>>
    IN  IF n = 0 THEN <<>>
        ELSE [k \in 1..(Len(sep) - 1) |->
                 SubSeq(sql_script, sep[k] + 1, sep[k + 1] - 1)]
LineSet(lines) == {lines[i] : i \in DOMAIN lines}

CommentHeads ==
    {"-- Missing Table: ", "-- Error generating CREATE TABLE for ",
     "-- Missing Column: ", "-- Mismatch: ", "-- Error getting definition for ",
     "-- Error connecting to DB1 for SQL generation: "}
IsComment(line) == line[1] \in CommentHeads
\* The positions of the SQL statements (the lines that are no comments).
SqlLines(lines) == {i \in DOMAIN lines : ~ IsComment(lines[i])}

ExtraKinds == {"Extra Table in DB2", "Extra Column in DB2"}
HasRecord(t, kinds) ==
    \E i \in DOMAIN df_diff :
        df_diff[i].Table = t /\ df_diff[i].DifferenceType \in kinds
Lookups(kind) == {i \in DOMAIN fetched : fetched[i].result.kind = kind}

\* The message of a failed lookup: the exception's, or that of the TypeError
\* a missing SHOW CREATE TABLE row ends in.
FailureText(f) ==
    IF f.result.kind = "exc" THEN f.result.e
    ELSE "'NoneType' object is not subscriptable"

\* The error comment of a lookup that failed.
ErrorComment(f) ==
    IF f.DifferenceType = "Missing Table in DB2"
    THEN <<"-- Error generating CREATE TABLE for ", f.Table, ": ", FailureText(f)>>
    ELSE <<"-- Error getting definition for ", f.Table, ".", f.Column, ": ",
           FailureText(f)>>

\* The clauses the spec prescribes for a column definition of DB1.
NullClause(null) == IF null = "NO" THEN <<"NOT NULL">> ELSE <<"NULL">>
DefaultClause(null, default) ==
    IF default # "<None>" THEN <<"DEFAULT '", default, "'">>
    ELSE IF null = "YES" THEN <<"DEFAULT NULL">>
    ELSE <<>>

\* The statement of a lookup that found its definition.
ExpectedStatement(f) ==
    IF f.DifferenceType = "Missing Table in DB2"
    THEN f.result.row[2] \o <<";\n">>
    ELSE <<"ALTER TABLE ", f.Table, " ",
           IF f.DifferenceType = "Missing Column in DB2" THEN "ADD" ELSE "MODIFY",
           " COLUMN ", f.Column, " ", f.result.row[2], " ">>
         \o NullClause(f.result.row[3]) \o <<" ">>
         \o DefaultClause(f.result.row[3], f.result.row[5])
         \o <<" ", f.result.row[6], ";">>

\* The lookups a difference list asks for: one per table with a Missing Table
\* record, and one per Missing Column, Type Mismatch or Nullable Mismatch
\* record of every other table.
ExpectedLookups ==
    Cardinality({t \in Tables : HasRecord(t, {"Missing Table in DB2"})})
    + Cardinality({i \in DOMAIN df_diff :
          /\ df_diff[i].DifferenceType \in
                {"Missing Column in DB2", "Type Mismatch", "Nullable Mismatch"}
          /\ ~ HasRecord(df_diff[i].Table, {"Missing Table in DB2"})})

\* C6: no lookup is made and no statement is emitted on account of an Extra
\* Table or Extra Column record: every lookup belongs to a record of another
\* kind, the script has no more SQL statements than lookups found
\* definitions (as many on the normal return, none on the connection-error
\* return), and a list of Extra records only gives no statement, whatever
\* DB1 does.
C6_Unidirectional ==
    pc \in {"returned", "conn_error"} =>
        LET sql == SqlLines(Lines)
        IN  /\ \A i \in DOMAIN fetched :
                  fetched[i].DifferenceType \notin ExtraKinds
            /\ Cardinality(sql) =
                  IF pc = "returned" THEN Cardinality(Lookups("row")) ELSE 0
            /\ (\A i \in DOMAIN df_diff :
                      df_diff[i].DifferenceType \in ExtraKinds)
                  => (sql = {} /\ (pc = "returned" => sql_script = <<>>))

C6_Witness ==
    /\ pc = "returned"
    /\ \E i, j \in DOMAIN df_diff :
          /\ df_diff[i].DifferenceType = "Extra Table in DB2"
          /\ df_diff[j].DifferenceType = "Extra Column in DB2"
    /\ Cardinality(SqlLines(Lines)) = 1

C6_WitnessOnlyExtra ==
    /\ pc = "returned"
    /\ Len(df_diff) = MaxDiffs
    /\ \A i \in DOMAIN df_diff : df_diff[i].DifferenceType \in ExtraKinds

\* C7: a lookup that raises is recorded as a comment line and aborts nothing:
\* the generated script holds the error comment of each failed lookup and
\* the statement of each successful one, with every lookup of the list made.
\* The connection-error return is taken only before the first lookup or
\* after the last one, never because a lookup failed.
C7_FailureIsolation ==
    /\ pc = "conn_error" => (fetched = <<>> \/ Len(fetched) = ExpectedLookups)
    /\ pc = "returned" =>
          LET lineset == LineSet(Lines)
          IN  /\ Len(fetched) = ExpectedLookups
              /\ \A i \in Lookups("exc") : ErrorComment(fetched[i]) \in lineset
              /\ \A i \in Lookups("row") :
                    ExpectedStatement(fetched[i]) \in lineset

C7_Witness ==
    /\ pc = "returned"
    /\ Len(fetched) = 3
    /\ fetched[1].result.kind = "row"
    /\ fetched[2].result.kind = "exc"
    /\ fetched[3].result.kind = "row"
    /\ Len(Lines) = 5

\* C8 as stated: a lookup that finds no row leaves a comment for its record
\* in the script.
C8_LookupMissReported ==
    pc = "returned" =>
        LET lines == Lines
        IN  /\ Len(fetched) = ExpectedLookups
            /\ \A i \in Lookups("none") :
                  \E k \in DOMAIN lines :
                      /\ IsComment(lines[k])
                      /\ lines[k][2] = fetched[i].Table
                      /\ fetched[i].Column # "ALL"
                            => lines[k][4] = fetched[i].Column

\* The lines of table t, in order (every line but the connection error's
\* names its table second).
LinesOf(lines, t) == SelectSeq(lines, LAMBDA l : l[2] = t)

\* C9: a table with a Missing Table record has exactly one block in the
\* script, the comment naming it and then DB1's create-table text with ";",
\* or one error comment when the lookup failed; the two lines are adjacent
\* and no ADD COLUMN or MODIFY COLUMN statement names the table.
C9_MissingTable ==
    pc = "returned" =>
        LET lines == Lines IN
        \A t \in Tables : HasRecord(t, {"Missing Table in DB2"}) =>
            /\ Cardinality({i \in DOMAIN fetched : fetched[i].Table = t}) = 1
            /\ LET f == fetched[CHOOSE i \in DOMAIN fetched : fetched[i].Table = t]
                   block == IF f.result.kind = "row"
                            THEN << <<"-- Missing Table: ", t>>,
                                    f.result.row[2] \o <<";\n">> >>
                            ELSE << ErrorComment(f) >>
               IN  /\ f.DifferenceType = "Missing Table in DB2"
                   /\ LinesOf(lines, t) = block
                   /\ \E k \in DOMAIN lines :
                         /\ k + Len(block) - 1 <= Len(lines)
                         /\ SubSeq(lines, k, k + Len(block) - 1) = block

C9_Witness ==
    /\ pc = "returned"
    /\ \E t \in Tables :
          /\ HasRecord(t, {"Missing Table in DB2"})
          /\ HasRecord(t, {"Missing Column in DB2"})
          /\ HasRecord(t, {"Type Mismatch", "Nullable Mismatch"})
          /\ LinesOf(Lines, t) = << <<"-- Missing Table: ", t>>,
                                    <<"CREATE TABLE ", t, " (...)", ";\n">> >>

\* C10: the ADD COLUMN or MODIFY COLUMN statement of a column found in DB1
\* carries DB1's type, NOT NULL when the null flag is "NO" and NULL
\* otherwise, and the default clause: DB1's default (quoted) when there is
\* one, DEFAULT NULL when there is none and the column is nullable, nothing
\* when there is none and the column is not nullable; preceded by its
\* comment line.
C10_ClauseConstruction ==
    pc = "returned" =>
        LET lines == Lines IN
        \A i \in Lookups("row") :
            fetched[i].DifferenceType # "Missing Table in DB2" =>
                \E k \in DOMAIN lines :
                    /\ lines[k] = ExpectedStatement(fetched[i])
                    /\ k > 1
                    /\ lines[k - 1][1] =
                          IF fetched[i].DifferenceType = "Missing Column in DB2"
                          THEN "-- Missing Column: " ELSE "-- Mismatch: "

C10_Witness ==
    /\ pc = "returned"
    /\ \E i, j, k \in Lookups("row") :
          /\ fetched[i].DifferenceType = "Missing Column in DB2"
          /\ fetched[i].result.row[3] = "NO" /\ fetched[i].result.row[5] = "<None>"
          /\ fetched[j].DifferenceType = "Type Mismatch"
          /\ fetched[j].result.row[3] = "YES" /\ fetched[j].result.row[5] = "<None>"
          /\ fetched[k].DifferenceType = "Nullable Mismatch"
          /\ fetched[k].result.row[5] = "0"

=============================================================================
